---- MODULE Spec2Model ----
(***************************************************************************)
(* fast_compress: the greedy, capacity-bounded phrase coder of             *)
(* data/fast_compress.  Two variants of `compress` exist:                  *)
(*   main.rs  compress(ids, offset, num_tokens, ...) driven by             *)
(*            compress_file over successive windows of one token file;     *)
(*   lib.rs   compress(ids, ...) exposed to Python as a single call.       *)
(* One loop iteration of `compress` is one action; the code after the loop *)
(* (end-of-input flush, table serialization, return) is one action.        *)
(* compressed_ids only ever grows inside an iteration, so its length at    *)
(* the end of an iteration bounds its length at every push in between.     *)
(***************************************************************************)
EXTENDS Integers, Sequences, FiniteSets, TLC

VARIABLES
    entry,                \* which function was called: "main", "lib" or "file"
    ids,                  \* the raw IDs (ids / the body of the input file)
    offset,               \* main.rs compress: offset
    num_tokens,           \* main.rs compress: num_tokens (header[2])
    initial_vocab_size,
    max_codebook_size,
    max_subtokens,
    max_out_seq_length,
    eot_token_id,
    disabled_ids,         \* the fastset::Set of never-merge IDs
    pc,                   \* position in compress
    compressed_ids,       \* compress: compressed_ids
    codebook,             \* compress: codebook, a set of <<phrase, id>> entries
    next_id,              \* compress: next_id
    ids_to_merge,         \* compress: ids_to_merge
    i,                    \* compress: i
    codebook_vec,         \* compress: codebook_vec (set when compress returns)
    remaining_ids,        \* lib.rs compress: remaining_ids (set on return)
    file_pc,              \* position in compress_file
    file_i,               \* compress_file: i
    file_compressed_ids,  \* compress_file: compressed_ids
    file_codebook_vec,    \* compress_file: codebook_vec
    header,               \* compress_file: header slots 2..5
    compressed_file,      \* body written to compressed_<filename>
    codebook_file         \* body written to codebooks_<filename>

params == <<entry, ids, num_tokens, initial_vocab_size, max_codebook_size,
            max_subtokens, max_out_seq_length, eot_token_id, disabled_ids>>
locals == <<pc, compressed_ids, codebook, next_id, ids_to_merge, i,
            codebook_vec, remaining_ids>>
filevars == <<file_pc, file_i, file_compressed_ids, file_codebook_vec,
              header, compressed_file, codebook_file>>
vars == <<params, offset, locals, filevars>>

----------------------------------------------------------------------------
(* Bounds of the model *)

MaxLen == 5          \* longest ids of a single compress call
MaxOffset == 1       \* largest offset of a single main.rs compress call
MaxCodebook == 2     \* largest max_codebook_size
MaxSub == 3          \* largest max_subtokens
MaxOut == 4          \* largest max_out_seq_length of a single compress call
MaxSpin == 2         \* how far past the cap a non-advancing lib.rs loop is followed
MaxFileLen == 6      \* most tokens in the body of an input file
MaxFileOut == 5      \* largest max_out_seq_length of a compress_file run
MaxWindows == 7      \* most windows a compress_file run is followed for

\* Result of Option::unwrap on None in get_usize_from_codebook (a panic).
Miss == 0 - 1
\* Option<Vec<usize>>: None and Some(xs)
None == [some |-> FALSE, ids |-> <<>>]

Some(xs) == [some |-> TRUE, ids |-> xs]

\* a file of the output directory: not created, or created with a body
NotWritten == [written |-> FALSE, header |-> <<>>, body |-> <<>>]

Written(h, b) == [written |-> TRUE, header |-> h, body |-> b]

Min(a, b) == IF a < b THEN a ELSE b

\* Non-empty sequences over S of length at most n
SeqsUpTo(S, n) == UNION {[1..k -> S] : k \in 1..n}

----------------------------------------------------------------------------
(* FxHashMap<Vec<usize>, usize> as a set of <<key, value>> entries *)

contains_key(cb, key) == \E e \in cb : e[1] = key

get(cb, key) == (CHOOSE e \in cb : e[1] = key)[2]

\* HashMap::insert: an existing entry for the key is replaced
insert(cb, key, value) == {e \in cb : e[1] # key} \cup {<<key, value>>}

keys(cb) == {e[1] : e \in cb}

values(cb) == {e[2] : e \in cb}

----------------------------------------------------------------------------
(* Helpers of main.rs / lib.rs *)

\* codebook_contains without the single-ID case of line 34
codebook_contains_keys_only(cb, p, ivs) == contains_key(cb, p)

codebook_contains(cb, p, ivs) ==
    IF Len(p) = 1 THEN p[1] < ivs ELSE contains_key(cb, p)

get_usize_from_codebook(cb, p) ==
    IF Len(p) = 1 THEN p[1]
    ELSE IF contains_key(cb, p) THEN get(cb, p) ELSE Miss

\* Result of disabled_ids_to_set when the unwrap of d_ids.iter().max()
\* panics (main.rs 55, lib.rs 33): no Set is built.
NoSet == {Miss}

\* main.rs 51-62, lib.rs 29-40: None gives the empty Set; Some(d_ids) takes
\* the maximum of d_ids for the capacity, which panics on an empty list,
\* and then inserts every ID
disabled_ids_to_set(disabled_ids_arg) ==
    IF ~disabled_ids_arg.some THEN {}
    ELSE IF disabled_ids_arg.ids = <<>> THEN NoSet
    ELSE {disabled_ids_arg.ids[k] : k \in DOMAIN disabled_ids_arg.ids}

\* push_to_compressed_ids without the test of line 66
push_unchecked(c, id, mo) == Append(c, id)

push_to_compressed_ids(c, id, mo) ==
    IF Len(c) < mo THEN Append(c, id) ELSE c

\* Vec::resize(n, fill): truncate or right-pad
resize(s, n, fill) ==
    IF Len(s) >= n THEN SubSeq(s, 1, n)
    ELSE s \o [k \in 1..(n - Len(s)) |-> fill]

\* Vec::pop followed by dropping the popped value
pop(s) == SubSeq(s, 1, Len(s) - 1)

\* codebook.iter().sorted_by(value): the keys in ascending order of value
RECURSIVE sorted_by_value(_)
sorted_by_value(cb) ==
    IF cb = {} THEN <<>>
    ELSE LET e == CHOOSE x \in cb : \A y \in cb : x[2] <= y[2]
         IN <<e[1]>> \o sorted_by_value(cb \ {e})

\* the rows of the table: every key resized to max_subtokens
padded_rows(cb, ms, eot) ==
    LET ks == sorted_by_value(cb)
    IN [k \in 1..Len(ks) |-> resize(ks[k], ms, eot)]

RECURSIVE flatten(_)
flatten(rows) ==
    IF rows = <<>> THEN <<>> ELSE Head(rows) \o flatten(Tail(rows))

\* main_codebook_vec without the k.resize of line 165
main_codebook_vec_unpadded(cb, mcs, ms, eot) ==
    resize(flatten(sorted_by_value(cb)), mcs * ms, eot)

\* main.rs: flat table of max_codebook_size * max_subtokens values
main_codebook_vec(cb, mcs, ms, eot) ==
    resize(flatten(padded_rows(cb, ms, eot)), mcs * ms, eot)

\* lib.rs: table of max_codebook_size rows
lib_codebook_vec(cb, mcs, ms, eot) ==
    resize(padded_rows(cb, ms, eot), mcs, [k \in 1..ms |-> eot])

----------------------------------------------------------------------------
(* main.rs compress *)

\* The locals of compress as a record
Locals(p, c, cb, nid, itm, n) ==
    [pc |-> p, compressed_ids |-> c, codebook |-> cb, next_id |-> nid,
     ids_to_merge |-> itm, i |-> n]

\* main.rs 96-108: the next raw ID is in the disabled set
main_disabled(s, id, mo) ==
    LET flush == Len(s.ids_to_merge) > 0
        v == get_usize_from_codebook(s.codebook, s.ids_to_merge)
    IN IF flush /\ v = Miss
       THEN [s EXCEPT !.pc = "panic"]
       ELSE LET c1 == IF flush
                      THEN push_to_compressed_ids(s.compressed_ids, v, mo)
                      ELSE s.compressed_ids
            IN [s EXCEPT !.compressed_ids = push_to_compressed_ids(c1, id, mo),
                         !.ids_to_merge = IF flush THEN <<>> ELSE @,
                         !.i = @ + 1]

\* main_full_flush with `>` for the `==` of line 129
main_full_flush_late(s, ms, mo) ==
    IF Len(s.ids_to_merge) > ms
    THEN LET v == get_usize_from_codebook(s.codebook, s.ids_to_merge)
         IN IF v = Miss
            THEN [s EXCEPT !.pc = "panic"]
            ELSE [s EXCEPT !.compressed_ids = push_to_compressed_ids(@, v, mo),
                           !.ids_to_merge = <<>>,
                           !.i = @ + 1]
    ELSE [s EXCEPT !.i = @ + 1]

\* main_full_flush without the flush of lines 129-136
main_full_flush_skipped(s, ms, mo) == [s EXCEPT !.i = @ + 1]

\* main.rs 129-138: flush at max_subtokens, then i += 1
main_full_flush(s, ms, mo) ==
    IF Len(s.ids_to_merge) = ms
    THEN LET v == get_usize_from_codebook(s.codebook, s.ids_to_merge)
         IN IF v = Miss
            THEN [s EXCEPT !.pc = "panic"]
            ELSE [s EXCEPT !.compressed_ids = push_to_compressed_ids(@, v, mo),
                           !.ids_to_merge = <<>>,
                           !.i = @ + 1]
    ELSE [s EXCEPT !.i = @ + 1]

\* main_register without the capacity test of line 114
main_register_unbounded(s, phrase, ivs, mcs) ==
    [s EXCEPT !.codebook = insert(@, phrase, s.next_id), !.next_id = @ + 1]

\* main_register without the increment of line 116
main_register_same_id(s, phrase, ivs, mcs) ==
    IF s.next_id < ivs + mcs
    THEN [s EXCEPT !.codebook = insert(@, phrase, s.next_id)]
    ELSE s

\* main.rs 114-117: register the candidate while there is capacity
main_register(s, phrase, ivs, mcs) ==
    IF s.next_id < ivs + mcs
    THEN [s EXCEPT !.codebook = insert(@, phrase, s.next_id),
                   !.next_id = @ + 1]
    ELSE s

\* main.rs 110-138: the next raw ID extends the candidate phrase
main_merge(s, id, ivs, mcs, ms, mo) ==
    LET m1 == Append(s.ids_to_merge, id)
    IN IF ~codebook_contains(s.codebook, m1, ivs)
       THEN LET s1 == main_register(s, m1, ivs, mcs)
                m2 == pop(m1)
                v == get_usize_from_codebook(s1.codebook, m2)
            IN IF v = Miss
               THEN [s1 EXCEPT !.pc = "panic", !.ids_to_merge = m2]
               ELSE main_full_flush(
                        [s1 EXCEPT !.compressed_ids =
                                       push_to_compressed_ids(@, v, mo),
                                   !.ids_to_merge = <<id>>],
                        ms, mo)
       ELSE main_full_flush([s EXCEPT !.ids_to_merge = m1], ms, mo)

\* main_loop_body without the disabled-ID test of line 96
main_loop_body_no_disabled(s, id, dis, ivs, mcs, ms, mo) ==
    main_merge(s, id, ivs, mcs, ms, mo)

\* main.rs 94-138: one iteration of the loop
main_loop_body(s, id, dis, ivs, mcs, ms, mo) ==
    IF id \in dis THEN main_disabled(s, id, mo)
    ELSE main_merge(s, id, ivs, mcs, ms, mo)

\* main.rs 141-150: the candidate is longer than max_subtokens
main_overlong_flush(s, ms, mo) ==
    IF Len(s.ids_to_merge) > ms
    THEN LET last_id == s.ids_to_merge[Len(s.ids_to_merge)]
             m == pop(s.ids_to_merge)
             v == get_usize_from_codebook(s.codebook, m)
         IN IF v = Miss
            THEN [s EXCEPT !.pc = "panic", !.ids_to_merge = m]
            ELSE [s EXCEPT !.compressed_ids = push_to_compressed_ids(@, v, mo),
                           !.ids_to_merge = <<last_id>>]
    ELSE s

\* main.rs 152-158: the last candidate
main_last_flush(s, mo) ==
    IF s.pc # "panic" /\ Len(s.ids_to_merge) > 0
    THEN LET v == get_usize_from_codebook(s.codebook, s.ids_to_merge)
         IN IF v = Miss
            THEN [s EXCEPT !.pc = "panic"]
            ELSE [s EXCEPT !.compressed_ids = push_to_compressed_ids(@, v, mo)]
    ELSE s

\* main.rs 141-158
main_end_flush(s, ms, mo) == main_last_flush(main_overlong_flush(s, ms, mo), mo)

CurLocals == Locals(pc, compressed_ids, codebook, next_id, ids_to_merge, i)

SetLocals(s) ==
    /\ pc' = s.pc
    /\ compressed_ids' = s.compressed_ids
    /\ codebook' = s.codebook
    /\ next_id' = s.next_id
    /\ ids_to_merge' = s.ids_to_merge
    /\ i' = s.i

\* main.rs 93: the loop condition
main_loop_cond ==
    offset + i < num_tokens /\ Len(compressed_ids) < max_out_seq_length

\* main.rs 88-92: the forced leading boundary marker
main_compress_begin ==
    /\ entry \in {"main", "file"}
    /\ pc = "start"
    /\ compressed_ids' = IF ids[offset + 1] # eot_token_id
                         THEN Append(compressed_ids, eot_token_id)
                         ELSE compressed_ids
    /\ pc' = "loop"
    /\ UNCHANGED <<params, offset, codebook, next_id, ids_to_merge, i,
                   codebook_vec, remaining_ids, filevars>>

\* main.rs 93-139: one loop iteration
main_compress_step ==
    /\ entry \in {"main", "file"}
    /\ pc = "loop"
    /\ main_loop_cond
    /\ SetLocals(main_loop_body(CurLocals, ids[offset + i + 1], disabled_ids,
                                initial_vocab_size, max_codebook_size,
                                max_subtokens, max_out_seq_length))
    /\ UNCHANGED <<params, offset, codebook_vec, remaining_ids, filevars>>

\* main.rs 141-172: the loop has ended; flush, serialize, return
main_compress_return ==
    /\ entry \in {"main", "file"}
    /\ pc = "loop"
    /\ ~main_loop_cond
    /\ LET s == main_end_flush(CurLocals, max_subtokens, max_out_seq_length)
       IN /\ SetLocals([s EXCEPT !.pc = IF s.pc = "panic" THEN "panic" ELSE "done"])
          /\ codebook_vec' =
                 IF s.pc = "panic" THEN codebook_vec
                 ELSE main_codebook_vec(s.codebook, max_codebook_size,
                                        max_subtokens, eot_token_id)
    /\ UNCHANGED <<params, offset, remaining_ids, filevars>>

\* main.rs 82-86: the locals of a fresh compress call
FreshLocals(start) ==
    /\ pc = start
    /\ compressed_ids = <<>>
    /\ codebook = {}
    /\ next_id = initial_vocab_size
    /\ ids_to_merge = <<>>
    /\ i = 0
    /\ codebook_vec = <<>>
    /\ remaining_ids = None

NoFile ==
    /\ file_pc = "none"
    /\ file_i = 0
    /\ file_compressed_ids = <<>>
    /\ file_codebook_vec = <<>>
    /\ header = <<>>
    /\ compressed_file = NotWritten
    /\ codebook_file = NotWritten

\* A single call of main.rs compress, as compress_file makes it (201, 209-219)
InitMain ==
    /\ entry = "main"
    /\ initial_vocab_size = 2
    /\ ids \in SeqsUpTo(0..initial_vocab_size, MaxLen)
    /\ num_tokens = Len(ids)
    /\ offset \in 0..Min(MaxOffset, Len(ids) - 1)
    /\ max_codebook_size \in 0..MaxCodebook
    /\ max_subtokens \in 1..MaxSub
    /\ max_out_seq_length \in 1..MaxOut
    /\ eot_token_id = 0
    /\ disabled_ids = disabled_ids_to_set(Some(<<eot_token_id>>))
    /\ FreshLocals("start")
    /\ NoFile

NextMain == main_compress_begin \/ main_compress_step \/ main_compress_return

SpecMain == InitMain /\ [][NextMain]_vars

----------------------------------------------------------------------------
(* lib.rs compress *)

\* lib.rs 61-68: the next raw ID is in the disabled set; `continue` is
\* reached without any change of i
lib_disabled(s, id) ==
    LET flush == Len(s.ids_to_merge) > 0
        v == get_usize_from_codebook(s.codebook, s.ids_to_merge)
    IN IF flush /\ v = Miss
       THEN [s EXCEPT !.pc = "panic"]
       ELSE LET c1 == IF flush THEN Append(s.compressed_ids, v)
                      ELSE s.compressed_ids
            IN [s EXCEPT !.compressed_ids = Append(c1, id),
                         !.ids_to_merge = IF flush THEN <<>> ELSE @]

\* lib.rs 85-90: flush at max_subtokens, then i += 1
lib_full_flush(s, ms) ==
    IF Len(s.ids_to_merge) = ms
    THEN LET v == get_usize_from_codebook(s.codebook, s.ids_to_merge)
         IN IF v = Miss
            THEN [s EXCEPT !.pc = "panic"]
            ELSE [s EXCEPT !.compressed_ids = Append(@, v),
                           !.ids_to_merge = <<>>,
                           !.i = @ + 1]
    ELSE [s EXCEPT !.i = @ + 1]

\* lib.rs 74-77: register the candidate while there is capacity
lib_register(s, phrase, ivs, mcs) ==
    IF s.next_id < ivs + mcs
    THEN [s EXCEPT !.codebook = insert(@, phrase, s.next_id),
                   !.next_id = @ + 1]
    ELSE s

\* lib.rs 70-90: the next raw ID extends the candidate phrase
lib_merge(s, id, ivs, mcs, ms) ==
    LET m1 == Append(s.ids_to_merge, id)
    IN IF ~codebook_contains(s.codebook, m1, ivs)
       THEN LET s1 == lib_register(s, m1, ivs, mcs)
                m2 == pop(m1)
                v == get_usize_from_codebook(s1.codebook, m2)
            IN IF v = Miss
               THEN [s1 EXCEPT !.pc = "panic", !.ids_to_merge = m2]
               ELSE lib_full_flush(
                        [s1 EXCEPT !.compressed_ids = Append(@, v),
                                   !.ids_to_merge = <<id>>],
                        ms)
       ELSE lib_full_flush([s EXCEPT !.ids_to_merge = m1], ms)

\* lib.rs 59-90: one iteration of the loop
lib_loop_body(s, id, dis, ivs, mcs, ms) ==
    IF id \in dis THEN lib_disabled(s, id)
    ELSE lib_merge(s, id, ivs, mcs, ms)

\* lib.rs 93-98: the candidate is longer than max_subtokens
lib_overlong_flush(s, ms) ==
    IF Len(s.ids_to_merge) > ms
    THEN LET last_id == s.ids_to_merge[Len(s.ids_to_merge)]
             m == pop(s.ids_to_merge)
             v == get_usize_from_codebook(s.codebook, m)
         IN IF v = Miss
            THEN [s EXCEPT !.pc = "panic", !.ids_to_merge = m]
            ELSE [s EXCEPT !.compressed_ids = Append(@, v),
                           !.ids_to_merge = <<last_id>>]
    ELSE s

\* lib.rs 100-102: the last candidate
lib_last_flush(s) ==
    IF s.pc # "panic" /\ Len(s.ids_to_merge) > 0
    THEN LET v == get_usize_from_codebook(s.codebook, s.ids_to_merge)
         IN IF v = Miss
            THEN [s EXCEPT !.pc = "panic"]
            ELSE [s EXCEPT !.compressed_ids = Append(@, v)]
    ELSE s

\* lib.rs 93-102
lib_end_flush(s, ms) == lib_last_flush(lib_overlong_flush(s, ms))

\* lib.rs 116-124: the first index j >= n with ids[j] = eot, or ids.len()
RECURSIVE scan_for_eot(_, _, _)
scan_for_eot(xs, j, eot) ==
    IF j < Len(xs) /\ xs[j + 1] # eot THEN scan_for_eot(xs, j + 1, eot) ELSE j

\* the leftover scan started at the head of the input instead of the cursor
lib_remaining_ids_from_head(xs, n, eot) ==
    LET j == scan_for_eot(xs, 0, eot)
    IN IF j < Len(xs) THEN Some(SubSeq(xs, j + 1, Len(xs))) ELSE None

\* lib.rs 116-130
lib_remaining_ids(xs, n, eot) ==
    LET j == scan_for_eot(xs, n, eot)
    IN IF j < Len(xs) THEN Some(SubSeq(xs, j + 1, Len(xs))) ELSE None

\* lib.rs 58: the loop condition
lib_loop_cond == i < Len(ids) /\ i < max_out_seq_length

\* lib.rs 58-91: one loop iteration.  An iteration that leaves i unchanged
\* repeats for ever in the code; the model follows it until compressed_ids
\* is MaxSpin longer than max_out_seq_length.
lib_compress_step ==
    /\ entry = "lib"
    /\ pc = "loop"
    /\ lib_loop_cond
    /\ Len(compressed_ids) < max_out_seq_length + MaxSpin
    /\ SetLocals(lib_loop_body(CurLocals, ids[i + 1], disabled_ids,
                               initial_vocab_size, max_codebook_size,
                               max_subtokens))
    /\ UNCHANGED <<params, offset, codebook_vec, remaining_ids, filevars>>

\* lib.rs 93-132: the loop has ended; flush, serialize, scan, return
lib_compress_return ==
    /\ entry = "lib"
    /\ pc = "loop"
    /\ ~lib_loop_cond
    /\ LET s == lib_end_flush(CurLocals, max_subtokens)
       IN /\ SetLocals([s EXCEPT !.pc = IF s.pc = "panic" THEN "panic" ELSE "done"])
          /\ codebook_vec' =
                 IF s.pc = "panic" THEN codebook_vec
                 ELSE lib_codebook_vec(s.codebook, max_codebook_size,
                                       max_subtokens, eot_token_id)
          /\ remaining_ids' =
                 IF s.pc = "panic" THEN remaining_ids
                 ELSE lib_remaining_ids(ids, s.i, eot_token_id)
    /\ UNCHANGED <<params, offset, filevars>>

\* The disabled_ids arguments a host may pass to py_compress
DisabledLists == {None, Some(<<>>), Some(<<0>>), Some(<<1>>), Some(<<0, 1>>)}

\* A single call of lib.rs compress through py_compress (lib.rs 137-156);
\* the call aborts before compress when disabled_ids_to_set panics
InitLib ==
    /\ entry = "lib"
    /\ initial_vocab_size = 2
    /\ ids \in SeqsUpTo(0..initial_vocab_size, MaxLen)
    /\ num_tokens = Len(ids)
    /\ offset = 0
    /\ max_codebook_size \in 0..MaxCodebook
    /\ max_subtokens \in 1..MaxSub
    /\ max_out_seq_length \in 1..MaxOut
    /\ eot_token_id = 0
    /\ disabled_ids \in {disabled_ids_to_set(d) : d \in DisabledLists}
    /\ FreshLocals(IF disabled_ids = NoSet THEN "panic" ELSE "loop")
    /\ NoFile

NextLib == lib_compress_step \/ lib_compress_return

SpecLib == InitLib /\ [][NextLib]_vars

----------------------------------------------------------------------------
(* main.rs compress_file *)

\* `x as u16` (main.rs 247, 255)
as_u16(x) == x % 65536

\* `x as i32` of a usize (main.rs 236-239)
\* (the identity up to 2^31 - 1, two's complement wrap above, for x < 2^32)
as_i32(x) ==
    IF x <= 2147483647 THEN x ELSE (x - 2147483647) - 2147483647 - 2

\* the 16-bit values written for a sequence of IDs (main.rs 245-248, 253-256)
to_u16s(xs) == [k \in 1..Len(xs) |-> as_u16(xs[k])]

\* main.rs 208: the window loop condition
file_loop_cond ==
    file_i < num_tokens /\ (num_tokens - file_i) > max_out_seq_length

\* compress_file_call with the codebook of lines 82-83 kept across calls
compress_file_call_keeps_codebook ==
    /\ entry = "file"
    /\ file_pc = "loop"
    /\ file_loop_cond
    /\ Len(file_compressed_ids) < MaxWindows * max_out_seq_length
    /\ file_pc' = "call"
    /\ offset' = file_i
    /\ pc' = "start"
    /\ compressed_ids' = <<>>
    /\ ids_to_merge' = <<>>
    /\ i' = 0
    /\ codebook_vec' = <<>>
    /\ UNCHANGED <<params, remaining_ids, codebook, next_id, file_i, file_compressed_ids,
                   file_codebook_vec, header, compressed_file, codebook_file>>

\* main.rs 209-219: the call of compress at the current offset.  A window
\* loop that does not advance file_i repeats for ever in the code; the model
\* follows it for MaxWindows windows.
compress_file_call ==
    /\ entry = "file"
    /\ file_pc = "loop"
    /\ file_loop_cond
    /\ Len(file_compressed_ids) < MaxWindows * max_out_seq_length
    /\ file_pc' = "call"
    /\ offset' = file_i
    /\ pc' = "start"
    /\ compressed_ids' = <<>>
    /\ codebook' = {}
    /\ next_id' = initial_vocab_size
    /\ ids_to_merge' = <<>>
    /\ i' = 0
    /\ codebook_vec' = <<>>
    /\ UNCHANGED <<params, remaining_ids, file_i, file_compressed_ids,
                   file_codebook_vec, header, compressed_file, codebook_file>>

\* main.rs 220-229: compress has returned (c_ids, c_codebook,
\* remaining_ids_offset); a window of another length ends compress_file
compress_file_collect ==
    /\ entry = "file"
    /\ file_pc = "call"
    /\ pc = "done"
    /\ file_i' = file_i + i
    /\ IF Len(compressed_ids) # max_out_seq_length
       THEN /\ file_pc' = "returned"
            /\ UNCHANGED <<file_compressed_ids, file_codebook_vec>>
       ELSE /\ file_pc' = "loop"
            /\ file_compressed_ids' = file_compressed_ids \o compressed_ids
            /\ file_codebook_vec' = file_codebook_vec \o codebook_vec
    /\ UNCHANGED <<params, offset, locals, header, compressed_file,
                   codebook_file>>

\* compress_file_write with the divisor of line 237 taken as max_codebook_size
compress_file_write_rows_by_size ==
    /\ entry = "file"
    /\ file_pc = "loop"
    /\ ~file_loop_cond
    /\ IF max_codebook_size * max_subtokens = 0
       THEN /\ file_pc' = "panic"
            /\ header' = [header EXCEPT ![3] = as_i32(Len(file_compressed_ids))]
            /\ UNCHANGED <<compressed_file, codebook_file>>
       ELSE LET h == [header EXCEPT
                        ![3] = as_i32(Len(file_compressed_ids)),
                        ![4] = as_i32(Len(file_codebook_vec)
                                      \div max_codebook_size),
                        ![5] = as_i32(max_codebook_size),
                        ![6] = as_i32(max_subtokens)]
            IN /\ file_pc' = "done"
               /\ header' = h
               /\ compressed_file' =
                      Written(h, to_u16s(file_compressed_ids))
               /\ codebook_file' =
                      Written(<<>>, to_u16s(file_codebook_vec))
    /\ UNCHANGED <<params, offset, locals, file_i, file_compressed_ids,
                   file_codebook_vec>>

\* main.rs 231-257: the window loop has ended; set the header and write the
\* two files.  The division of line 237 panics when its divisor is 0.
compress_file_write ==
    /\ entry = "file"
    /\ file_pc = "loop"
    /\ ~file_loop_cond
    /\ IF max_codebook_size * max_subtokens = 0
       THEN /\ file_pc' = "panic"
            /\ header' = [header EXCEPT ![3] = as_i32(Len(file_compressed_ids))]
            /\ UNCHANGED <<compressed_file, codebook_file>>
       ELSE LET h == [header EXCEPT
                        ![3] = as_i32(Len(file_compressed_ids)),
                        ![4] = as_i32(Len(file_codebook_vec)
                                      \div (max_codebook_size * max_subtokens)),
                        ![5] = as_i32(max_codebook_size),
                        ![6] = as_i32(max_subtokens)]
            IN /\ file_pc' = "done"
               /\ header' = h
               /\ compressed_file' =
                      Written(h, to_u16s(file_compressed_ids))
               /\ codebook_file' =
                      Written(<<>>, to_u16s(file_codebook_vec))
    /\ UNCHANGED <<params, offset, locals, file_i, file_compressed_ids,
                   file_codebook_vec>>

\* main.rs 176-206: the file has been read and its header accepted
\* (header[k + 1] is slot k)
InitFile ==
    /\ entry = "file"
    /\ initial_vocab_size = 2
    /\ ids \in SeqsUpTo(0..initial_vocab_size, MaxFileLen)
    /\ num_tokens = Len(ids)
    /\ offset = 0
    /\ max_codebook_size \in 0..MaxCodebook
    /\ max_subtokens \in 1..MaxSub
    /\ max_out_seq_length \in 1..MaxFileOut
    /\ eot_token_id = 0
    /\ disabled_ids = disabled_ids_to_set(Some(<<eot_token_id>>))
    /\ FreshLocals("idle")
    /\ file_pc = "loop"
    /\ file_i = 0
    /\ file_compressed_ids = <<>>
    /\ file_codebook_vec = <<>>
    /\ header = <<20240520, 1, num_tokens, 0, 0, 0>>
    /\ compressed_file = NotWritten
    /\ codebook_file = NotWritten

NextFile ==
    \/ compress_file_call
    \/ main_compress_begin
    \/ main_compress_step
    \/ main_compress_return
    \/ compress_file_collect
    \/ compress_file_write

SpecFile == InitFile /\ [][NextFile]_vars

----------------------------------------------------------------------------
(* Both variants of compress, each called once *)

InitCompress == InitMain \/ InitLib

NextCompress == NextMain \/ NextLib

SpecCompress == InitCompress /\ [][NextCompress]_vars

----------------------------------------------------------------------------
(* Decoding a window: every substitute ID is replaced by its row of the    *)
(* table, without the padding of the row                                    *)

\* all raw IDs of the input are below initial_vocab_size
InVocab == \A k \in 1..Len(ids) : ids[k] < initial_vocab_size

RECURSIVE strip_padding(_, _)
strip_padding(row, eot) ==
    IF row # <<>> /\ row[Len(row)] = eot
    THEN strip_padding(pop(row), eot)
    ELSE row

\* row r (from 0) of the flat table of main.rs
main_table_row(table, r, ms) == SubSeq(table, r * ms + 1, (r + 1) * ms)

main_decode(out, table, ivs, ms, eot) ==
    flatten([k \in 1..Len(out) |->
                IF out[k] >= ivs
                THEN strip_padding(main_table_row(table, out[k] - ivs, ms), eot)
                ELSE <<out[k]>>])

\* the output of main.rs compress without the forced leading marker
without_forced_marker(out) ==
    IF ids[offset + 1] # eot_token_id THEN Tail(out) ELSE out

\* the raw IDs ids[offset .. offset + n)
consumed(n) == SubSeq(ids, offset + 1, offset + n)

----------------------------------------------------------------------------
(* Claims *)

\* C1: main.rs round trip.  When compress returns (out, table, n) on an
\* input whose raw IDs are all below initial_vocab_size, out without the
\* forced leading marker, decoded with table, is ids[offset .. offset+n).
C1_RoundTrip ==
    (entry = "main" /\ pc = "done" /\ InVocab)
        => main_decode(without_forced_marker(compressed_ids), codebook_vec,
                       initial_vocab_size, max_subtokens, eot_token_id)
           = consumed(i)

\* C2: main.rs output cap.  compressed_ids is never longer than
\* max_out_seq_length, in any state of the call.
C2_OutputCap ==
    entry = "main" => Len(compressed_ids) <= max_out_seq_length

\* C2 witness: compress has returned with a full output and a candidate
\* whose last flush was dropped at the cap
C2_Witness ==
    /\ entry = "main"
    /\ pc = "done"
    /\ Len(compressed_ids) = max_out_seq_length
    /\ Len(ids_to_merge) > 0
    /\ i > 1

\* C3: lib.rs output cap.  compressed_ids is never longer than
\* max_out_seq_length, in any state of the call, whatever the disabled set.
C3_LibOutputCap ==
    entry = "lib" => Len(compressed_ids) <= max_out_seq_length

\* C4: lib.rs progress.  Every loop iteration that continues the loop has
\* moved the cursor i to the next raw ID.
C4_LibCursorAdvances ==
    [][(entry = "lib" /\ pc = "loop" /\ pc' = "loop") => i' = i + 1]_vars

\* the raw ID the next loop iteration reads
next_raw_id == IF entry = "lib" THEN ids[i + 1] ELSE ids[offset + i + 1]

\* a loop iteration that has not aborted
IterationDone == pc = "loop" /\ pc' = "loop" /\ entry \in {"main", "lib"}

\* the ID emitted for a candidate phrase
code_of(cb, p) == IF Len(p) = 1 THEN p[1] ELSE get(cb, p)

C5_NoDisabledInPhrases ==
    /\ \A k \in 1..Len(ids_to_merge) : ids_to_merge[k] \notin disabled_ids
    /\ \A p \in keys(codebook) : \A k \in 1..Len(p) : p[k] \notin disabled_ids

\* what an iteration on a disabled ID may emit: the code of the pending
\* candidate, then the ID itself (main.rs: as far as the cap allows)
C5_DisabledEmitted ==
    LET full == compressed_ids
                \o (IF ids_to_merge = <<>> THEN <<>>
                    ELSE <<code_of(codebook, ids_to_merge)>>)
                \o <<next_raw_id>>
    IN /\ ids_to_merge' = <<>>
       /\ codebook' = codebook
       /\ \/ compressed_ids' = full
          \/ /\ entry = "main"
             /\ compressed_ids' = SubSeq(full, 1, max_out_seq_length)

\* C5: no phrase spans a boundary marker.  Neither the candidate phrase nor
\* a registered phrase ever holds an ID of the disabled set, and an
\* iteration on a disabled ID flushes and clears the candidate and then
\* emits the ID as itself.
C5_NoPhraseSpansMarker ==
    /\ []C5_NoDisabledInPhrases
    /\ [][(IterationDone /\ next_raw_id \in disabled_ids)
              => C5_DisabledEmitted]_vars

\* C5 witness: main.rs compress has just emitted a boundary marker after
\* flushing a registered phrase of two IDs
C5_Witness ==
    /\ entry = "main"
    /\ pc = "loop"
    /\ i > 2
    /\ ids[offset + i] \in disabled_ids
    /\ ids_to_merge = <<>>
    /\ Len(compressed_ids) >= 2
    /\ compressed_ids[Len(compressed_ids)] = ids[offset + i]
    /\ compressed_ids[Len(compressed_ids) - 1] >= initial_vocab_size
    /\ InVocab

C6_AtMostCapacity == Cardinality(codebook) <= max_codebook_size

\* a registered phrase that the extended candidate equals still matches:
\* the candidate is kept (or flushed as a whole at max_subtokens)
C6_StillMatches ==
    LET m1 == Append(ids_to_merge, next_raw_id)
    IN (next_raw_id \notin disabled_ids /\ m1 \in keys(codebook))
           => ids_to_merge' = IF Len(m1) = max_subtokens THEN <<>> ELSE m1

C6_Step ==
    /\ codebook \subseteq codebook'
    /\ Cardinality(keys(codebook')) = Cardinality(codebook')
    /\ Cardinality(codebook) = max_codebook_size
           => /\ codebook' = codebook
              /\ next_id' = next_id
              /\ IterationDone => C6_StillMatches

\* C6: bounded, non-evicting codebook.  The codebook never holds more than
\* max_codebook_size entries; no step of a call removes an entry or maps
\* its phrase to another ID; a step taken with a full codebook leaves the
\* codebook and next_id unchanged, and registered phrases still match.
C6_BoundedNonEvicting ==
    /\ []C6_AtMostCapacity
    /\ [][C6_Step]_vars

\* C6 witness: with a full codebook, the candidate has just been extended
\* to a registered phrase
C6_Witness ==
    /\ pc = "loop"
    /\ max_codebook_size >= 1
    /\ Cardinality(codebook) = max_codebook_size
    /\ Len(ids_to_merge) >= 2
    /\ ids_to_merge \in keys(codebook)

C7_Numbering ==
    /\ \A e1 \in codebook : \A e2 \in codebook : e1[2] = e2[2] => e1 = e2
    /\ values(codebook) = initial_vocab_size .. (next_id - 1)
    /\ next_id = initial_vocab_size + Cardinality(keys(codebook))

\* a step that changes the codebook adds one entry, for a phrase that was
\* no key, with the ID initial_vocab_size + (entries before)
C7_Insertion ==
    codebook' # codebook
        => \E p \in keys(codebook') \ keys(codebook) :
               codebook' = codebook \cup
                   {<<p, initial_vocab_size + Cardinality(codebook)>>}

\* C7: substitute-ID assignment in main.rs.  The k-th phrase registered
\* gets the ID initial_vocab_size + k - 1; the codebook is injective, its
\* IDs are exactly [initial_vocab_size, next_id), next_id is
\* initial_vocab_size plus the number of entries, and no insertion
\* overwrites a key.
C7_SubstituteIds ==
    /\ []C7_Numbering
    /\ [][C7_Insertion]_vars

\* C7 witness: two phrases have been registered
C7_Witness ==
    /\ entry = "main"
    /\ Cardinality(codebook) >= 2
    /\ next_id = initial_vocab_size + 2

\* C8 as stated: every registered phrase has between 2 and max_subtokens
\* raw IDs.
C8_PhraseLength2ToMax ==
    \A p \in keys(codebook) : 2 <= Len(p) /\ Len(p) <= max_subtokens

\* C8 (amended): every registered phrase has between 1 and max_subtokens
\* raw IDs; a phrase of one ID is a raw ID >= initial_vocab_size, it is the
\* only entry of that length, and the call has aborted on the lookup of the
\* empty prefix in the iteration that registered it; so every phrase of a
\* codebook that compress returns (or still works on) has between 2 and
\* max_subtokens raw IDs.
C8_PhraseLength ==
    /\ \A p \in keys(codebook) :
           /\ 1 <= Len(p)
           /\ Len(p) <= max_subtokens
           /\ Len(p) = 1 => (pc = "panic" /\ p[1] >= initial_vocab_size
                             /\ ids_to_merge = <<>>)
    /\ pc # "panic" => C8_PhraseLength2ToMax

\* C8 witness: compress has returned a codebook with a phrase of exactly
\* max_subtokens raw IDs and a phrase of 2
C8_Witness ==
    /\ pc = "done"
    /\ max_subtokens = 3
    /\ \E p \in keys(codebook) : Len(p) = max_subtokens
    /\ \E p \in keys(codebook) : Len(p) = 2

\* a phrase right-padded to max_subtokens with the boundary marker
C9_padded(p) ==
    p \o [k \in 1..(max_subtokens - Len(p)) |-> eot_token_id]

\* row r (from 0) of the returned table, in either variant
C9_row(r) ==
    IF entry = "lib" THEN codebook_vec[r + 1]
    ELSE main_table_row(codebook_vec, r, max_subtokens)

\* C9: table serialization.  The returned table has max_codebook_size rows
\* of max_subtokens IDs; row s - initial_vocab_size is the phrase with
\* substitute ID s, right-padded with eot_token_id; every row from the
\* number of registered phrases on holds only eot_token_id.
C9_TableSerialization ==
    pc = "done" =>
        /\ IF entry = "lib"
           THEN /\ Len(codebook_vec) = max_codebook_size
                /\ \A r \in 1..Len(codebook_vec) :
                       Len(codebook_vec[r]) = max_subtokens
           ELSE Len(codebook_vec) = max_codebook_size * max_subtokens
        /\ \A e \in codebook :
               /\ e[2] - initial_vocab_size \in 0..(max_codebook_size - 1)
               /\ C9_row(e[2] - initial_vocab_size) = C9_padded(e[1])
        /\ \A r \in Cardinality(codebook)..(max_codebook_size - 1) :
               C9_row(r) = [k \in 1..max_subtokens |-> eot_token_id]

\* C9 witness: main.rs compress has returned a table with a phrase shorter
\* than max_subtokens, an unused row, and an output that names the first
\* row
C9_Witness ==
    /\ entry = "main"
    /\ pc = "done"
    /\ InVocab
    /\ Cardinality(codebook) >= 1
    /\ Cardinality(codebook) < max_codebook_size
    /\ \E e \in codebook : Len(e[1]) < max_subtokens
    /\ \E k \in 1..Len(compressed_ids) :
           compressed_ids[k] = initial_vocab_size

\* C10: compress_file ends with both artifacts written, holding the
\* windows accumulated so far.
C10_ArtifactsWritten ==
    (entry = "file" /\ file_pc \in {"done", "returned"})
        => /\ compressed_file.written
           /\ compressed_file.body = to_u16s(file_compressed_ids)
           /\ codebook_file.written
           /\ codebook_file.body = to_u16s(file_codebook_vec)

\* compress_file is about to append the window that compress has returned
WindowAccepted ==
    /\ entry = "file"
    /\ file_pc = "call"
    /\ pc = "done"
    /\ Len(compressed_ids) = max_out_seq_length

\* C11: window start marker.  Every window compress_file appends starts
\* with eot_token_id: a window whose first raw ID is the marker holds it
\* once, and a window whose first raw ID is no marker holds one forced
\* marker followed by the code of that first raw ID.
C11_WindowStartsWithMarker ==
    WindowAccepted =>
        /\ compressed_ids[1] = eot_token_id
        /\ IF ids[offset + 1] = eot_token_id
           THEN /\ i >= 1
                /\ (Len(compressed_ids) >= 2 /\ compressed_ids[2] = eot_token_id)
                       => (i >= 2 /\ ids[offset + 2] = eot_token_id)
           ELSE /\ i >= 1
                /\ Len(compressed_ids) >= 2
                /\ compressed_ids[2] = ids[offset + 1]

\* C16: window loop progress.  An accepted window has consumed at least one
\* raw ID, so compress_file resumes at a larger offset.
C16_WindowConsumes ==
    [][(entry = "file" /\ file_pc = "call" /\ file_pc' = "loop")
           => file_i' > file_i]_vars

\* C12: lib.rs leftover slice.  When compress returns having consumed the
\* first i raw IDs, remaining_ids is Some(ids[j..]) for the smallest index
\* j >= i holding eot_token_id, and None exactly when no index >= i holds it.
C12_LeftoverSlice ==
    (entry = "lib" /\ pc = "done") =>
        LET J == {j \in i..(Len(ids) - 1) : ids[j + 1] = eot_token_id}
        IN IF J = {}
           THEN remaining_ids = None
           ELSE \E j \in J :
                    /\ \A k \in J : j <= k
                    /\ remaining_ids = Some(SubSeq(ids, j + 1, Len(ids)))
                    /\ remaining_ids.ids[1] = eot_token_id

\* C12 witness: compress has returned a leftover slice that starts after
\* the cursor, on an input that also holds a consumed marker
C12_Witness ==
    /\ entry = "lib"
    /\ pc = "done"
    /\ i >= 1
    /\ \E k \in 1..i : ids[k] = eot_token_id
    /\ remaining_ids # None
    /\ Len(remaining_ids.ids) < Len(ids) - i

\* the raw IDs an output of lib.rs compress stands for: every substitute ID
\* replaced by its row of the table, the padding removed
lib_decode(out, table, ivs, eot) ==
    flatten([k \in 1..Len(out) |->
                IF out[k] >= ivs
                THEN strip_padding(table[out[k] - ivs + 1], eot)
                ELSE <<out[k]>>])

\* no raw ID of the input is in the disabled set
NoDisabledInput == \A k \in 1..Len(ids) : ids[k] \notin disabled_ids

\* C13: lib.rs round trip.  On an input whose raw IDs are all below
\* initial_vocab_size and outside the disabled set, the returned output
\* decoded with the returned table is the first
\* min(len(ids), max_out_seq_length) raw IDs.
C13_LibRoundTrip ==
    (entry = "lib" /\ pc = "done" /\ InVocab /\ NoDisabledInput)
        => lib_decode(compressed_ids, codebook_vec, initial_vocab_size,
                      eot_token_id)
           = SubSeq(ids, 1, Min(Len(ids), max_out_seq_length))

\* every raw ID of the input is disabled or below initial_vocab_size
InVocabOrDisabled ==
    \A k \in 1..Len(ids) :
        ids[k] \in disabled_ids \/ ids[k] < initial_vocab_size

\* C14: lookup never misses.  On an input whose raw IDs are all disabled or
\* below initial_vocab_size, no lookup of main.rs compress aborts, and after
\* every loop iteration the candidate phrase is empty, a single raw ID, or a
\* key of the codebook.
C14_LookupNeverMisses ==
    (entry = "main" /\ InVocabOrDisabled) =>
        /\ pc # "panic"
        /\ \/ ids_to_merge = <<>>
           \/ Len(ids_to_merge) = 1
           \/ contains_key(codebook, ids_to_merge)

\* C14 witness: compress has returned after emitting a substitute ID, its
\* last flush looking up a registered phrase of several IDs
C14_Witness ==
    /\ entry = "main"
    /\ InVocabOrDisabled
    /\ pc = "done"
    /\ Len(ids_to_merge) >= 2
    /\ contains_key(codebook, ids_to_merge)
    /\ \E k \in 1..Len(compressed_ids) :
           compressed_ids[k] = get(codebook, ids_to_merge)
    /\ \E k \in 1..Len(ids) : ids[k] \in disabled_ids

\* xs is a prefix of ys
IsPrefix(xs, ys) == Len(xs) <= Len(ys) /\ xs = SubSeq(ys, 1, Len(xs))

\* C15: out-of-vocabulary raw IDs are never silently wrong.  When main.rs
\* compress returns, every output ID at or above initial_vocab_size is a
\* substitute ID of this window, below next_id, and stands for its
\* registered phrase: no raw ID at or above initial_vocab_size was emitted
\* unchanged, so the decoded output is a run of the consumed raw IDs.
C15_NoSilentOov ==
    (entry = "main" /\ pc = "done") =>
        /\ \A k \in 1..Len(compressed_ids) :
               compressed_ids[k] >= initial_vocab_size
                   => compressed_ids[k] < next_id
        /\ IsPrefix(main_decode(without_forced_marker(compressed_ids),
                                codebook_vec, initial_vocab_size,
                                max_subtokens, eot_token_id),
                    consumed(i))

\* the number of windows compress_file has accepted
accepted_windows == Len(file_compressed_ids) \div max_out_seq_length

\* C17 (state part): after k accepted windows the compressed stream holds
\* k * max_out_seq_length IDs and the codebook stream
\* k * max_codebook_size * max_subtokens values, and written header slots
\* 2..5 are k * max_out_seq_length, k, max_codebook_size, max_subtokens.
C17_Shape ==
    entry = "file" =>
        LET k == accepted_windows
        IN /\ Len(file_compressed_ids) = k * max_out_seq_length
           /\ Len(file_codebook_vec) = k * max_codebook_size * max_subtokens
           /\ compressed_file # NotWritten =>
                  /\ compressed_file.header[3] = k * max_out_seq_length
                  /\ compressed_file.header[4] = k
                  /\ compressed_file.header[5] = max_codebook_size
                  /\ compressed_file.header[6] = max_subtokens
                  /\ Len(compressed_file.body) = k * max_out_seq_length
                  /\ Len(codebook_file.body)
                         = k * max_codebook_size * max_subtokens

\* C17 (step part): an accepted window appends its max_out_seq_length IDs
\* and its table to the two streams, making k + 1 windows; no other step
\* changes the streams.
C17_Append ==
    entry = "file" =>
        IF file_pc = "call" /\ file_pc' = "loop"
        THEN /\ accepted_windows' = accepted_windows + 1
             /\ file_compressed_ids' = file_compressed_ids \o compressed_ids
             /\ file_codebook_vec' = file_codebook_vec \o codebook_vec
        ELSE UNCHANGED <<file_compressed_ids, file_codebook_vec>>

\* C17: fixed-shape accumulation.  The two streams grow by one fixed-shape
\* window per accepted window, in the same order, and the written header
\* counts them.
C17_FixedShape == []C17_Shape /\ [][C17_Append]_vars

\* C17 witness: the artifacts are written with two windows
C17_Witness ==
    /\ entry = "file"
    /\ file_pc = "done"
    /\ compressed_file # NotWritten
    /\ compressed_file.header[4] = 2
    /\ max_subtokens >= 2

\* C18: the over-length flush is dead code.  In every state of a compress
\* call, so at the end of every loop iteration and at loop exit, the
\* candidate phrase has fewer than max_subtokens IDs; the test
\* ids_to_merge.len() > max_subtokens after the loop is never true.
C18_CandidateBelowMax ==
    entry \in {"main", "lib"} => Len(ids_to_merge) < max_subtokens

\* C18 witness: an iteration has just flushed a candidate that reached
\* max_subtokens >= 2 IDs
C18_Witness ==
    /\ entry \in {"main", "lib"}
    /\ pc = "loop"
    /\ max_subtokens >= 2
    /\ i >= max_subtokens
    /\ ids_to_merge = <<>>
    /\ ids[offset + i] \notin disabled_ids
    /\ compressed_ids # <<>>
    /\ compressed_ids[Len(compressed_ids)] >= initial_vocab_size
    /\ \E e \in codebook :
           /\ e[2] = compressed_ids[Len(compressed_ids)]
           /\ Len(e[1]) = max_subtokens

\* main.rs 93-139 run to the end of the loop on the raw IDs xs, from the
\* locals s
RECURSIVE main_run_loop(_, _)
main_run_loop(s, xs) ==
    IF s.pc = "loop" /\ s.i < Len(xs)
           /\ Len(s.compressed_ids) < max_out_seq_length
    THEN main_run_loop(
             main_loop_body(s, xs[s.i + 1], disabled_ids, initial_vocab_size,
                            max_codebook_size, max_subtokens,
                            max_out_seq_length),
             xs)
    ELSE s

\* Result of a compress call that a lookup miss has aborted (main.rs 46):
\* nothing is returned
Panicked == <<"panic">>

\* main.rs 71-173 as a function of the raw IDs xs = ids[offset..] and the
\* parameters alone: (compressed_ids, codebook_vec, i), or Panicked
main_compress_of(xs) ==
    LET s0 == Locals("loop",
                     IF xs[1] # eot_token_id THEN <<eot_token_id>> ELSE <<>>,
                     {}, initial_vocab_size, <<>>, 0)
        s1 == main_run_loop(s0, xs)
        s2 == main_end_flush(s1, max_subtokens, max_out_seq_length)
    IN IF s2.pc = "panic" THEN Panicked
       ELSE <<s2.compressed_ids,
              main_codebook_vec(s2.codebook, max_codebook_size,
                                max_subtokens, eot_token_id),
              s2.i>>

\* C19 (fresh start): a compress call of compress_file starts with an empty
\* codebook, an empty candidate, no output and next_id = initial_vocab_size.
C19_FreshStart ==
    (entry = "file" /\ pc = "start") =>
        /\ codebook = {}
        /\ ids_to_merge = <<>>
        /\ compressed_ids = <<>>
        /\ next_id = initial_vocab_size
        /\ i = 0

\* C19 (window-local phrases): every phrase registered in a window is a
\* contiguous run of the raw IDs ids[offset .. offset + i) that window has
\* consumed.
C19_ContiguousRuns ==
    (entry = "file" /\ pc \in {"loop", "done"}) =>
        \A e \in codebook :
            \E a \in 0..(i - Len(e[1])) :
                SubSeq(ids, offset + a + 1, offset + a + Len(e[1])) = e[1]

\* C19 (no carried state): what a call returns, or that it aborts, is what
\* a call with fresh locals does on the raw IDs from its offset, whatever
\* windows came before it.
C19_SameInputsSameResult ==
    (entry = "file" /\ file_pc = "call" /\ pc \in {"done", "panic"}) =>
        LET r == main_compress_of(SubSeq(ids, offset + 1, num_tokens))
        IN IF pc = "panic"
           THEN r = Panicked
           ELSE r # Panicked /\ r = <<compressed_ids, codebook_vec, i>>

\* C19: window-local codebook.  Every compress call of compress_file starts
\* fresh, registers only runs of the raw IDs it consumed, and returns a
\* result that depends on its inputs alone.
C19_WindowLocal ==
    /\ C19_FreshStart
    /\ C19_ContiguousRuns
    /\ C19_SameInputsSameResult

\* C19 witness: a later window of a file has returned with registered
\* phrases, after an earlier window that registered phrases was appended
C19_Witness ==
    /\ entry = "file"
    /\ file_pc = "call"
    /\ pc = "done"
    /\ offset > 0
    /\ codebook # {}
    /\ \E k \in 1..Len(file_codebook_vec) :
           file_codebook_vec[k] # eot_token_id

====
